---- MODULE Spec2Model ----
(***************************************************************************)
(* ottotom: OpenTelemetry metrics -> OpenMetrics text.                     *)
(*                                                                         *)
(* The module models                                                       *)
(*   - src/convert.rs   the renderer (write_as_openmetrics and helpers),   *)
(*   - src/exporter.rs  the double-buffered OpenMetricsExporter.           *)
(*                                                                         *)
(* A Rust string is a sequence of one-character strings.  An output sink   *)
(* is the sequence of the chunks written to it, one chunk per write_str /  *)
(* write_char call; the text it holds is the concatenation of the chunks.  *)
(***************************************************************************)
EXTENDS Integers, Sequences, FiniteSets, TLC

\* ------------------------------------------------------------------------
\* Bounds of the model
\* ------------------------------------------------------------------------
MaxNameLen == 3
MaxAttrs == 2
MaxPoints == 2
MaxScopes == 2
MaxValueLen == 3
MaxUnitLen == 3
MaxBuckets == 2
MaxExportCalls == 3
MaxTextCalls == 2
MaxClones == 1
MaxFairExportCalls == 2
MaxFairTextCalls == 2

\* ------------------------------------------------------------------------
\* Characters and strings
\* ------------------------------------------------------------------------

\* The byte value of the characters the model uses (all of them ASCII).
Code ==
  [c \in {"\n", " ", "\"", "#", "+", ",", ".", ":", "=", "\\", "_", "{", "}"} |->
     CASE c = "\n" -> 10 [] c = " " -> 32 [] c = "\"" -> 34 [] c = "#" -> 35
       [] c = "+" -> 43 [] c = "," -> 44 [] c = "." -> 46 [] c = ":" -> 58
       [] c = "=" -> 61 [] c = "\\" -> 92 [] c = "_" -> 95 [] c = "{" -> 123
       [] c = "}" -> 125]
  @@ [c \in {"0", "1", "2", "3", "4", "5", "6", "7", "8", "9"} |->
     CASE c = "0" -> 48 [] c = "1" -> 49 [] c = "2" -> 50 [] c = "3" -> 51
       [] c = "4" -> 52 [] c = "5" -> 53 [] c = "6" -> 54 [] c = "7" -> 55
       [] c = "8" -> 56 [] c = "9" -> 57]
  @@ [c \in {"A", "B", "E", "F", "H", "I", "L", "N", "O", "P", "T", "U", "Y", "Z"} |->
     CASE c = "A" -> 65 [] c = "B" -> 66 [] c = "E" -> 69 [] c = "F" -> 70
       [] c = "H" -> 72 [] c = "I" -> 73 [] c = "L" -> 76 [] c = "N" -> 78
       [] c = "O" -> 79 [] c = "P" -> 80 [] c = "T" -> 84 [] c = "U" -> 85
       [] c = "Y" -> 89 [] c = "Z" -> 90]
  @@ [c \in {"f", "j", "p", "q", "w"} |->
     CASE c = "f" -> 102 [] c = "j" -> 106 [] c = "p" -> 112 [] c = "q" -> 113
       [] c = "w" -> 119]
  @@ [c \in {"a", "b", "c", "d", "e", "g", "h", "i", "k", "l", "m", "n", "o",
             "r", "s", "t", "u", "v", "x", "y", "z"} |->
     CASE c = "a" -> 97 [] c = "b" -> 98 [] c = "c" -> 99 [] c = "d" -> 100
       [] c = "e" -> 101 [] c = "g" -> 103 [] c = "h" -> 104 [] c = "i" -> 105
       [] c = "k" -> 107 [] c = "l" -> 108 [] c = "m" -> 109 [] c = "n" -> 110
       [] c = "o" -> 111 [] c = "r" -> 114 [] c = "s" -> 115 [] c = "t" -> 116
       [] c = "u" -> 117 [] c = "v" -> 118 [] c = "x" -> 120 [] c = "y" -> 121
       [] c = "z" -> 122]

\* char::is_ascii_digit
IsAsciiDigit(c) == Code[c] >= 48 /\ Code[c] <= 57

\* char::is_ascii_alphanumeric
IsAsciiAlphanumeric(c) ==
  \/ IsAsciiDigit(c)
  \/ (Code[c] >= 65 /\ Code[c] <= 90)
  \/ (Code[c] >= 97 /\ Code[c] <= 122)

\* All sequences over S of length 0..n.
SeqsUpTo(S, n) == UNION {[1..k -> S] : k \in 0..n}

\* The text held by a sink: the concatenation of its chunks.
RECURSIVE Flatten(_)
Flatten(chunks) ==
  IF chunks = <<>> THEN <<>> ELSE Head(chunks) \o Flatten(Tail(chunks))

\* The byte string of s, as the sequence of its byte values.
Bytes(s) == [i \in 1..Len(s) |-> Code[s[i]]]

\* Ord for byte strings and for u64 keys written as sequences of naturals:
\* lexicographic, a proper prefix is smaller.
KeyLess(a, b) ==
  \E i \in 1..(Len(b)) :
    /\ \A j \in 1..(i - 1) : j <= Len(a) /\ a[j] = b[j]
    /\ \/ i = Len(a) + 1
       \/ i <= Len(a) /\ a[i] < b[i]

\* slice::sort_unstable_by_key / sort_by_cached_key on the short slices of
\* the model: insertion sort, which leaves elements with equal keys in their
\* input order.  items and keys are parallel sequences.
RECURSIVE InsertByKey(_, _)
InsertByKey(sorted, x) ==
  IF sorted = <<>> THEN <<x>>
  ELSE IF KeyLess(x.key, sorted[Len(sorted)].key)
       THEN Append(InsertByKey(SubSeq(sorted, 1, Len(sorted) - 1), x),
                   sorted[Len(sorted)])
       ELSE Append(sorted, x)

RECURSIVE SortPairs(_)
SortPairs(pairs) ==
  IF pairs = <<>> THEN <<>>
  ELSE InsertByKey(SortPairs(SubSeq(pairs, 1, Len(pairs) - 1)), pairs[Len(pairs)])

SortByKey(items, keys) ==
  LET pairs == [i \in 1..Len(items) |-> [key |-> keys[i], item |-> items[i]]]
      sorted == SortPairs(pairs)
  IN [i \in 1..Len(items) |-> sorted[i].item]

\* ------------------------------------------------------------------------
\* src/format.rs: integers in decimal
\* ------------------------------------------------------------------------
DigitChar == <<"0", "1", "2", "3", "4", "5", "6", "7", "8", "9">>

RECURSIVE fast_display(_)
fast_display(n) ==
  IF n < 10 THEN <<DigitChar[n + 1]>>
  ELSE Append(fast_display(n \div 10), DigitChar[(n % 10) + 1])

\* ------------------------------------------------------------------------
\* src/convert.rs: name sanitizer, escaping, attributes, fingerprint
\* ------------------------------------------------------------------------

\* SanitizeLoop of a sanitizer that forgets previous_was_underscore: every
\* illegal character becomes its own '_'.
RECURSIVE SanitizeLoopNoCollapse(_, _, _)
SanitizeLoopNoCollapse(f, name, previous_was_underscore) ==
  IF name = <<>> THEN f
  ELSE IF IsAsciiAlphanumeric(Head(name)) \/ Head(name) = ":"
       THEN SanitizeLoopNoCollapse(Append(f, <<Head(name)>>), Tail(name), FALSE)
       ELSE SanitizeLoopNoCollapse(Append(f, <<"_">>), Tail(name), TRUE)

\* write_sanitized_name: the loop over name.chars(), carrying the chunks
\* written so far and previous_was_underscore.
RECURSIVE SanitizeLoop(_, _, _)
SanitizeLoop(f, name, previous_was_underscore) ==
  IF name = <<>> THEN f
  ELSE LET c == Head(name) IN
       IF IsAsciiAlphanumeric(c) \/ c = ":"
       THEN SanitizeLoop(Append(f, <<c>>), Tail(name), FALSE)
       ELSE IF ~previous_was_underscore
            THEN SanitizeLoop(Append(f, <<"_">>), Tail(name), TRUE)
            ELSE SanitizeLoop(f, Tail(name), TRUE)

write_sanitized_name(f, name) ==
  IF name # <<>> /\ IsAsciiDigit(name[1])
  THEN SanitizeLoop(Append(f, <<"_">>), name, TRUE)
  ELSE SanitizeLoop(f, name, FALSE)

\* next_escape_char: position of the first of \ " newline, 0 for None.
next_escape_char(bytes) ==
  IF \E i \in 1..Len(bytes) : bytes[i] \in {"\\", "\"", "\n"}
  THEN CHOOSE i \in 1..Len(bytes) :
         /\ bytes[i] \in {"\\", "\"", "\n"}
         /\ \A j \in 1..(i - 1) : bytes[j] \notin {"\\", "\"", "\n"}
  ELSE 0

\* EscapeOf of a writer that copies a backslash as it is.
EscapeOfRawBackslash(byte) ==
  CASE byte = "\\" -> <<"\\">>
    [] byte = "\"" -> <<"\\", "\"">>
    [] byte = "\n" -> <<"\\", "n">>

\* write_escaped, lines 504-509: the escape of one special byte.
EscapeOf(byte) ==
  CASE byte = "\\" -> <<"\\", "\\">>
    [] byte = "\"" -> <<"\\", "\"">>
    [] byte = "\n" -> <<"\\", "n">>

RECURSIVE WriteEscapedAt(_, _, _)
write_escaped(f, value) == WriteEscapedAt(f, value, next_escape_char(value))

\* write_escaped, the body of the while loop and the write after it.
WriteEscapedAt(f, value, next_escape) ==
  IF next_escape = 0 THEN Append(f, value)
  ELSE write_escaped(Append(Append(f, SubSeq(value, 1, next_escape - 1)),
                            EscapeOf(value[next_escape])),
                     SubSeq(value, next_escape + 1, Len(value)))

\* write_attrs_tuple: the loop over the sorted attributes.
RECURSIVE AttrsLoop(_, _, _)
AttrsLoop(f, attrs, first) ==
  IF attrs = <<>> THEN f
  ELSE LET attr == Head(attrs)
           f1 == IF ~first THEN Append(f, <<",">>) ELSE f
           f2 == write_sanitized_name(f1, attr[1])
           f3 == Append(f2, <<"=", "\"">>)
           f4 == write_escaped(f3, attr[2])
           f5 == Append(f4, <<"\"">>)
       IN AttrsLoop(f5, Tail(attrs), FALSE)

\* write_attrs_tuple of a writer that keeps the order of its iterator.
WriteAttrsUnsorted(f, attrs) == AttrsLoop(f, attrs, TRUE)

write_attrs_tuple(f, attrs) ==
  AttrsLoop(f, SortByKey(attrs, [i \in 1..Len(attrs) |-> Bytes(attrs[i][1])]), TRUE)

write_attrs(f, attrs) == write_attrs_tuple(f, attrs)

\* ------------------------------------------------------------------------
\* src/convert/unit.rs
\* ------------------------------------------------------------------------

\* Option<T>: None, or Some(v) written <<v>>.
None == <<>>
Some(v) == <<v>>

\* get_prom_units: the table of short units and their long names.
PromUnits ==
  {<<<<"d">>, <<"d", "a", "y", "s">>>>,
   <<<<"h">>, <<"h", "o", "u", "r", "s">>>>,
   <<<<"m", "i", "n">>, <<"m", "i", "n", "u", "t", "e", "s">>>>,
   <<<<"s">>, <<"s", "e", "c", "o", "n", "d", "s">>>>,
   <<<<"m", "s">>, <<"m", "i", "l", "l", "i", "s", "e", "c", "o", "n", "d", "s">>>>,
   <<<<"u", "s">>, <<"m", "i", "c", "r", "o", "s", "e", "c", "o", "n", "d", "s">>>>,
   <<<<"n", "s">>, <<"n", "a", "n", "o", "s", "e", "c", "o", "n", "d", "s">>>>,
   <<<<"K", "i", "B", "y">>, <<"k", "i", "b", "i", "b", "y", "t", "e", "s">>>>,
   <<<<"M", "i", "B", "y">>, <<"m", "e", "b", "i", "b", "y", "t", "e", "s">>>>,
   <<<<"G", "i", "B", "y">>, <<"g", "i", "b", "i", "b", "y", "t", "e", "s">>>>,
   <<<<"T", "i", "B", "y">>, <<"t", "i", "b", "i", "b", "y", "t", "e", "s">>>>,
   <<<<"B", "y">>, <<"b", "y", "t", "e", "s">>>>,
   <<<<"B">>, <<"b", "y", "t", "e", "s">>>>,
   <<<<"K", "B", "y">>, <<"k", "i", "l", "o", "b", "y", "t", "e", "s">>>>,
   <<<<"K", "B">>, <<"k", "i", "l", "o", "b", "y", "t", "e", "s">>>>,
   <<<<"M", "B", "y">>, <<"m", "e", "g", "a", "b", "y", "t", "e", "s">>>>,
   <<<<"M", "B">>, <<"m", "e", "g", "a", "b", "y", "t", "e", "s">>>>,
   <<<<"G", "B", "y">>, <<"g", "i", "g", "a", "b", "y", "t", "e", "s">>>>,
   <<<<"G", "B">>, <<"g", "i", "g", "a", "b", "y", "t", "e", "s">>>>,
   <<<<"T", "B", "y">>, <<"t", "e", "r", "a", "b", "y", "t", "e", "s">>>>,
   <<<<"T", "B">>, <<"t", "e", "r", "a", "b", "y", "t", "e", "s">>>>,
   <<<<"m">>, <<"m", "e", "t", "e", "r", "s">>>>,
   <<<<"V">>, <<"v", "o", "l", "t", "s">>>>,
   <<<<"A">>, <<"a", "m", "p", "e", "r", "e", "s">>>>,
   <<<<"J">>, <<"j", "o", "u", "l", "e", "s">>>>,
   <<<<"W">>, <<"w", "a", "t", "t", "s">>>>,
   <<<<"g">>, <<"g", "r", "a", "m", "s">>>>,
   <<<<"C", "e", "l">>, <<"c", "e", "l", "s", "i", "u", "s">>>>,
   <<<<"H", "z">>, <<"h", "e", "r", "t", "z">>>>,
   <<<<"1">>, <<"r", "a", "t", "i", "o">>>>,
   <<<<"%">>, <<"p", "e", "r", "c", "e", "n", "t">>>>}

get_prom_units(unit) ==
  IF \E e \in PromUnits : e[1] = unit
  THEN Some((CHOOSE e \in PromUnits : e[1] = unit)[2])
  ELSE None

\* get_prom_per_unit: the table of denominators.
PromPerUnits ==
  {<<<<"s">>, <<"s", "e", "c", "o", "n", "d">>>>,
   <<<<"m">>, <<"m", "i", "n", "u", "t", "e">>>>,
   <<<<"h">>, <<"h", "o", "u", "r">>>>,
   <<<<"d">>, <<"d", "a", "y">>>>,
   <<<<"w">>, <<"w", "e", "e", "k">>>>,
   <<<<"m", "o">>, <<"m", "o", "n", "t", "h">>>>,
   <<<<"y">>, <<"y", "e", "a", "r">>>>}

get_prom_per_unit(unit) ==
  IF \E e \in PromPerUnits : e[1] = unit
  THEN Some((CHOOSE e \in PromPerUnits : e[1] = unit)[2])
  ELSE None

NON_APPLICABLE_ON_PER_UNIT ==
  {<<"1">>, <<"d">>, <<"h">>, <<"m", "i", "n">>, <<"s">>, <<"m", "s">>, <<"u", "s">>, <<"n", "s">>}

\* str::split_once('/'): None, or Some of the parts around the first '/'.
split_once(unit) ==
  IF \E i \in 1..Len(unit) : unit[i] = "/"
  THEN LET i == CHOOSE k \in 1..Len(unit) :
                  unit[k] = "/" /\ \A j \in 1..(k - 1) : unit[j] # "/"
       IN Some(<<SubSeq(unit, 1, i - 1), SubSeq(unit, i + 1, Len(unit))>>)
  ELSE None

\* PerUnit of a mapper that forgets NON_APPLICABLE_ON_PER_UNIT.
PerUnitAlwaysApplicable(non_applicable, first_part, second_part) ==
  IF second_part # None /\ first_part = None
  THEN Some(<<"p", "e", "r", "_">> \o second_part[1])
  ELSE IF second_part # None /\ first_part # None
       THEN Some(first_part[1] \o <<"_", "p", "e", "r", "_">> \o second_part[1])
       ELSE None

\* get_unit_suffixes, the match on (NON_APPLICABLE_ON_PER_UNIT.contains(first),
\* get_prom_units(first), get_prom_per_unit(second)).
PerUnit(non_applicable, first_part, second_part) ==
  IF second_part # None /\ (non_applicable \/ first_part = None)
  THEN Some(<<"p", "e", "r", "_">> \o second_part[1])
  ELSE IF second_part # None /\ ~non_applicable /\ first_part # None
       THEN Some(first_part[1] \o <<"_", "p", "e", "r", "_">> \o second_part[1])
       ELSE None

\* get_unit_suffixes, after the direct match failed: the split at '/'.
SplitUnit(parts) ==
  IF parts = None THEN None
  ELSE PerUnit(parts[1][1] \in NON_APPLICABLE_ON_PER_UNIT,
               get_prom_units(parts[1][1]), get_prom_per_unit(parts[1][2]))

\* get_unit_suffixes, after the test for the empty unit.
DirectOrSplit(unit, matched) ==
  IF matched # None THEN matched ELSE SplitUnit(split_once(unit))

get_unit_suffixes(unit) ==
  IF unit = <<>> THEN None ELSE DirectOrSplit(unit, get_prom_units(unit))

\* ------------------------------------------------------------------------
\* src/convert.rs: the renderer
\* ------------------------------------------------------------------------

\* String literals of src/convert.rs.
STR_TYPE == <<"#", " ", "T", "Y", "P", "E", " ">>
STR_UNIT == <<"#", " ", "U", "N", "I", "T", " ">>
STR_HELP == <<"#", " ", "H", "E", "L", "P", " ">>
STR_EOF == <<"#", " ", "E", "O", "F", "\n">>
STR_created == <<"_", "c", "r", "e", "a", "t", "e", "d", "{">>
STR_count == <<"_", "c", "o", "u", "n", "t", "{">>
STR_sum == <<"_", "s", "u", "m", "{">>
STR_bucket == <<"_", "b", "u", "c", "k", "e", "t", "{">>
STR_total == <<"_", "t", "o", "t", "a", "l", "{">>
STR_brace == <<"{">>
STR_close == <<"}", " ">>
STR_le == <<"l", "e", "=", "\"">>
STR_le_close == <<"\"", "}", " ">>
STR_le_inf == <<"l", "e", "=", "\"", "+", "I", "n", "f", "\"", "}", " ">>
STR_gauge == <<"g", "a", "u", "g", "e">>
STR_counter == <<"c", "o", "u", "n", "t", "e", "r">>
STR_histogram == <<"h", "i", "s", "t", "o", "g", "r", "a", "m">>
STR_otel_scope_name == <<"o", "t", "e", "l", "_", "s", "c", "o", "p", "e", "_", "n", "a", "m", "e">>

\* hash_attrs.  DefaultHasher is modelled as a hash without accidental
\* collisions: finish() of a byte stream is a word with exactly one bit set,
\* the bit of that stream, so a u64 is written as the set of the streams
\* whose bit is set and ^ is the symmetric difference.  Two fingerprints of
\* the model are equal only if the code feeds the hasher the same bytes or
\* XOR cancels equal pairs.
DefaultHasher_finish(stream) == {stream}

Xor(h1, h2) == (h1 \ h2) \cup (h2 \ h1)

\* hasher.write(key bytes); hasher.write(value bytes)
HasherStream(kv) == Bytes(kv[1]) \o Bytes(kv[2])

RECURSIVE hash_attrs(_)
hash_attrs(attrs) ==
  IF attrs = <<>> THEN {}
  ELSE Xor(hash_attrs(SubSeq(attrs, 1, Len(attrs) - 1)),
           DefaultHasher_finish(HasherStream(attrs[Len(attrs)])))

\* The highest bit set in a fingerprint.
TopBit(h) == CHOOSE s \in h : \A t \in h \ {s} : KeyLess(t, s)

\* Ord of the u64 fingerprints as a sort key: the bits set, highest first
\* (each stream closed by 0, which is below every byte of the model).
RECURSIVE U64Key(_)
U64Key(h) ==
  IF h = {} THEN <<>>
  ELSE TopBit(h) \o <<0>> \o U64Key(h \ {TopBit(h)})

\* cfg!(feature = "otel_scope_info"): the default build has it off.
feature_otel_scope_info == FALSE

make_scope_name_attrs(scope_name) ==
  IF feature_otel_scope_info THEN <<(<<STR_otel_scope_name, scope_name>>)>> ELSE <<>>

\* Context::with_output.  panicked records that an assert_eq! of the
\* renderer failed and the call is unwinding.
Context_with_output(f) ==
  [f |-> f, attr_buffer |-> <<>>, name |-> <<>>, unit |-> None,
   typ |-> <<>>, scope_name |-> <<>>, panicked |-> FALSE]

\* to_timestamp: whole seconds since the epoch, shown without ".0".
to_timestamp(time) == fast_display(time)

\* Ok(typ) is Some(typ), Err(()) is None.
get_type(data) ==
  CASE data.kind = "Gauge" -> Some(STR_gauge)
    [] data.kind = "Sum" ->
         IF data.is_monotonic THEN Some(STR_counter) ELSE Some(STR_gauge)
    [] data.kind = "Histogram" ->
         IF data.temporality = "Cumulative" THEN Some(STR_histogram) ELSE None
    [] OTHER -> None

\* extract_type_unit_and_name, lines 131-141: ctx.typ, ctx.unit and ctx.name
\* are set; the unit suffix is pushed after '_'.
SetTypeUnitName(ctx, typ, unit, sanitized) ==
  [ctx EXCEPT !.typ = typ[1], !.unit = unit,
              !.name = IF unit # None THEN sanitized \o <<"_">> \o unit[1] ELSE sanitized]

\* The bool returned is get_type(metric.data) # None.
extract_type_unit_and_name(ctx, metric) ==
  IF get_type(metric.data) = None THEN ctx
  ELSE SetTypeUnitName(ctx, get_type(metric.data), get_unit_suffixes(metric.unit),
                       Flatten(write_sanitized_name(<<>>, metric.name)))

\* write_header, the # TYPE line.
HeaderType(ctx) ==
  [ctx EXCEPT !.f = @ \o <<STR_TYPE, ctx.name, <<" ">>, ctx.typ, <<"\n">> >>]

\* write_header, the # UNIT line.
HeaderUnit(ctx) ==
  IF ctx.unit # None
  THEN [ctx EXCEPT !.f = @ \o <<STR_UNIT, ctx.name, <<" ">>, ctx.unit[1], <<"\n">> >>]
  ELSE ctx

\* HeaderHelp of a writer that copies the description as it is.
HeaderHelpRaw(ctx, description) ==
  IF description # <<>>
  THEN [ctx EXCEPT !.f = @ \o <<STR_HELP, ctx.name, <<" ">>, description, <<"\n">> >>]
  ELSE ctx

\* write_header, the # HELP line.
HeaderHelp(ctx, description) ==
  IF description # <<>>
  THEN [ctx EXCEPT !.f = Append(write_escaped(@ \o <<STR_HELP, ctx.name, <<" ">> >>,
                                              description),
                                <<"\n">>)]
  ELSE ctx

\* write_header of a writer that puts the # HELP line ahead of the # UNIT
\* line.
WriteHeaderHelpFirst(ctx, description) ==
  HeaderUnit(HeaderHelp(HeaderType(ctx), description))

write_header(ctx, description) == HeaderHelp(HeaderUnit(HeaderType(ctx)), description)

\* One sample line of write_gauge / write_counter: attrs is the attribute
\* string, suffix is "{" or "_total{".
PointLine(ctx, attrs, value, suffix, ts) ==
  [ctx EXCEPT !.attr_buffer = attrs,
              !.f = @ \o <<ctx.name, suffix, attrs, STR_close,
                           fast_display(value), <<" ">>, ts, <<"\n">> >>]

\* The loop of write_gauge and of both branches of write_counter.
RECURSIVE PointsLoop(_, _, _, _)
PointsLoop(ctx, points, suffix, ts) ==
  IF points = <<>> THEN ctx
  ELSE PointsLoop(
         PointLine(ctx,
                   Flatten(write_attrs(<<>>, Head(points).attributes
                                             \o make_scope_name_attrs(ctx.scope_name))),
                   Head(points).value, suffix, ts),
         Tail(points), suffix, ts)

\* points.sort_by_cached_key(|p| hash_attrs(p.attributes()))
SortPoints(points) ==
  SortByKey(points, [i \in 1..Len(points) |-> U64Key(hash_attrs(points[i].attributes))])

write_gauge(ctx, gauge) ==
  PointsLoop(ctx, SortPoints(gauge.data_points), STR_brace, to_timestamp(gauge.time))

\* The assert_eq! on the temporality comes first; the two loops differ in
\* the suffix only.
write_counter(ctx, sum) ==
  IF sum.temporality # "Cumulative"
  THEN [ctx EXCEPT !.panicked = TRUE]
  ELSE PointsLoop(ctx, SortPoints(sum.data_points),
                  IF sum.is_monotonic THEN STR_total ELSE STR_brace,
                  to_timestamp(sum.time))

\* BucketLoop of a writer that prints the count of each bucket instead of
\* the running sum.
RECURSIVE BucketLoopPerBucket(_, _, _, _, _, _)
BucketLoopPerBucket(ctx, attrs, bounds, counts, cumulative_count, ts) ==
  IF bounds = <<>> \/ counts = <<>> THEN ctx
  ELSE BucketLoopPerBucket(
         [ctx EXCEPT !.f = @ \o <<ctx.name, STR_bucket, attrs, STR_le,
                                  fast_display(Head(bounds)), STR_le_close,
                                  fast_display(Head(counts)),
                                  <<" ">>, ts, <<"\n">> >>],
         attrs, Tail(bounds), Tail(counts), cumulative_count + Head(counts), ts)

\* The _bucket lines of one histogram point: zip(bounds, bucket_counts).
RECURSIVE BucketLoop(_, _, _, _, _, _)
BucketLoop(ctx, attrs, bounds, counts, cumulative_count, ts) ==
  IF bounds = <<>> \/ counts = <<>> THEN ctx
  ELSE BucketLoop(
         [ctx EXCEPT !.f = @ \o <<ctx.name, STR_bucket, attrs, STR_le,
                                  fast_display(Head(bounds)), STR_le_close,
                                  fast_display(cumulative_count + Head(counts)),
                                  <<" ">>, ts, <<"\n">> >>],
         attrs, Tail(bounds), Tail(counts), cumulative_count + Head(counts), ts)

\* write_histogram, lines 285-300: the _count and _sum lines of a point.
CountSumLines(ctx, point, attrs, ts) ==
  [ctx EXCEPT !.f = @ \o <<ctx.name, STR_count, attrs, STR_close,
                           fast_display(point.count), <<" ">>, ts, <<"\n">>,
                           ctx.name, STR_sum, attrs, STR_close,
                           fast_display(point.sum), <<" ">>, ts, <<"\n">> >>]

\* write_histogram, lines 351-358: the le="+Inf" line of a point.
InfLine(ctx, point, attrs, ts) ==
  [ctx EXCEPT !.attr_buffer = attrs,
              !.f = @ \o <<ctx.name, STR_bucket, attrs, STR_le_inf,
                           fast_display(point.count), <<" ">>, ts, <<"\n">> >>]

\* write_histogram, lines 328-330: attrs.push(',') unless attrs is empty.
PushComma(attrs) == IF attrs # <<>> THEN Append(attrs, ",") ELSE attrs

\* write_histogram, the body of the loop over the points.
HistogramPoint(ctx, point, attrs, ts) ==
  InfLine(BucketLoop(CountSumLines(ctx, point, attrs, ts), PushComma(attrs),
                     point.bounds, point.bucket_counts, 0, ts),
          point, PushComma(attrs), ts)

RECURSIVE HistogramLoop(_, _, _)
HistogramLoop(ctx, points, ts) ==
  IF points = <<>> THEN ctx
  ELSE HistogramLoop(
         HistogramPoint(ctx, Head(points),
                        Flatten(write_attrs(<<>>, Head(points).attributes
                                                  \o make_scope_name_attrs(ctx.scope_name))),
                        ts),
         Tail(points), ts)

\* write_histogram, lines 258-271: the _created line.
CreatedLine(ctx, attrs, created, ts) ==
  [ctx EXCEPT !.attr_buffer = attrs,
              !.f = @ \o <<ctx.name, STR_created, attrs, STR_close, created,
                           <<" ">>, ts, <<"\n">> >>]

\* write_histogram, lines 272-359: the assert_eq! and the loop.
AssertCumulativeThenPoints(ctx, histogram) ==
  IF histogram.temporality # "Cumulative"
  THEN [ctx EXCEPT !.panicked = TRUE]
  ELSE HistogramLoop(ctx, SortPoints(histogram.data_points), to_timestamp(histogram.time))

write_histogram(ctx, histogram) ==
  AssertCumulativeThenPoints(
    CreatedLine(ctx, Flatten(write_attrs(<<>>, make_scope_name_attrs(ctx.scope_name))),
                to_timestamp(histogram.start_time), to_timestamp(histogram.time)),
    histogram)

write_values(ctx, data) ==
  CASE data.kind = "Gauge" -> write_gauge(ctx, data)
    [] data.kind = "Sum" -> write_counter(ctx, data)
    [] data.kind = "Histogram" -> write_histogram(ctx, data)
    [] OTHER -> [ctx EXCEPT !.panicked = TRUE]

\* write_as_openmetrics, lines 99-105: one metric.
WriteMetric(ctx, metric) ==
  IF get_type(metric.data) # None
  THEN write_values(write_header(extract_type_unit_and_name(ctx, metric),
                                 metric.description),
                    metric.data)
  ELSE ctx

\* write_as_openmetrics: the loop over the sorted metrics of one scope.
RECURSIVE MetricsLoop(_, _)
MetricsLoop(ctx, metrics) ==
  IF metrics = <<>> THEN ctx
  ELSE IF ctx.panicked THEN ctx
  ELSE MetricsLoop(WriteMetric(ctx, Head(metrics)), Tail(metrics))

\* metrics.sort_unstable_by_key(|met| met.name())
SortMetrics(metrics) ==
  SortByKey(metrics, [i \in 1..Len(metrics) |-> Bytes(metrics[i].name)])

\* scopes.sort_unstable_by_key(|s| s.scope().name())
SortScopes(scopes) ==
  SortByKey(scopes, [i \in 1..Len(scopes) |-> Bytes(scopes[i].name)])

\* write_as_openmetrics, lines 92-94.
SetScopeName(ctx, scope) ==
  IF feature_otel_scope_info THEN [ctx EXCEPT !.scope_name = scope.name] ELSE ctx

\* write_as_openmetrics: the loop over the sorted scopes.
RECURSIVE ScopesLoop(_, _)
ScopesLoop(ctx, scopes) ==
  IF scopes = <<>> THEN ctx
  ELSE IF ctx.panicked THEN ctx
  ELSE ScopesLoop(MetricsLoop(SetScopeName(ctx, Head(scopes)),
                              SortMetrics(Head(scopes).metrics)),
                  Tail(scopes))

\* write_as_openmetrics, lines 108-109: the terminal line, unless the call
\* is unwinding.
WriteEof(ctx) ==
  IF ctx.panicked
  THEN [f |-> ctx.f, panicked |-> TRUE]
  ELSE [f |-> Append(ctx.f, STR_EOF), panicked |-> FALSE]

\* WriteOpenMetrics for ResourceMetrics, into a sink that accepts every
\* write: the chunks written, and whether the call panicked instead of
\* returning.
write_as_openmetrics(rm) ==
  WriteEof(ScopesLoop(Context_with_output(<<>>), SortScopes(rm.scope_metrics)))

\* ------------------------------------------------------------------------
\* State
\* ------------------------------------------------------------------------
VARIABLES
  rwlocks,      \* the Arc<RwLock<String>> allocations: id -> lock and String
  mutexes,      \* the Arc<Mutex<String>> allocations: id -> lock and String
  exporters,    \* the OpenMetricsExporter values that exist (clones included)
  ex,           \* the export calls: position in export() and its locals
  tx,           \* the text calls: position in text() and the value returned
  rendered,     \* history: snapshots whose render finished inside an export
  lastOk,       \* history: snapshot of the latest export that returned Ok
  input,        \* argument of the renderer function under test
  output,       \* what the function wrote for input
  first_output, \* what it wrote the first time in this behaviour
  permuted      \* kinds of reordering applied to input since then

exporterVars == <<rwlocks, mutexes, exporters, ex, tx, rendered, lastOk>>
renderVars == <<input, output, first_output, permuted>>
vars == <<rwlocks, mutexes, exporters, ex, tx, rendered, lastOk,
          input, output, first_output, permuted>>

NoTask == <<"none", 0>>
Unset == "unset"

\* ------------------------------------------------------------------------
\* tokio::sync::Mutex and tokio::sync::RwLock as src/exporter.rs uses them:
\* both hand the lock to waiters in FIFO order; a reader that arrives while
\* a writer waits queues behind it.
\* ------------------------------------------------------------------------
MutexNew(s) == [data |-> s, holder |-> NoTask, queue |-> <<>>]

\* MutexLock of a lock that never makes a caller wait.
MutexLockNoWait(m, t) == [m EXCEPT !.holder = t]

\* lock(): taken at once when free, queued otherwise.
MutexLock(m, t) ==
  IF m.holder = NoTask /\ m.queue = <<>>
  THEN [m EXCEPT !.holder = t]
  ELSE [m EXCEPT !.queue = Append(@, t)]

\* Drop of the MutexGuard: the lock passes to the first waiter.
MutexUnlock(m) ==
  IF m.queue = <<>>
  THEN [m EXCEPT !.holder = NoTask]
  ELSE [m EXCEPT !.holder = Head(m.queue), !.queue = Tail(m.queue)]

RwLockNew(s) == [data |-> s, readers |-> {}, writer |-> NoTask, queue |-> <<>>]

\* CanRead of a lock whose read side is exclusive, as a Mutex would be.
CanReadExclusive(l) == l.writer = <<"none", 0>> /\ l.readers = {}

\* Whether a shared acquisition is compatible with the holders.
CanRead(l) == l.writer = NoTask

\* Whether an exclusive acquisition is compatible with the holders.
CanWrite(l) == l.writer = NoTask /\ l.readers = {}

\* RwLockRead of a lock that prefers readers: a read is granted whenever no
\* writer holds the lock, past any writer that waits.
RwLockReadBarging(l, t) ==
  IF l.writer = <<"none", 0>>
  THEN [l EXCEPT !.readers = @ \cup {t}]
  ELSE [l EXCEPT !.queue = Append(@, [task |-> t, mode |-> "read"])]

\* read(): granted at once when no writer holds the lock and nobody waits.
RwLockRead(l, t) ==
  IF CanRead(l) /\ l.queue = <<>>
  THEN [l EXCEPT !.readers = @ \cup {t}]
  ELSE [l EXCEPT !.queue = Append(@, [task |-> t, mode |-> "read"])]

\* write(): granted at once when nobody holds the lock and nobody waits.
RwLockWrite(l, t) ==
  IF CanWrite(l) /\ l.queue = <<>>
  THEN [l EXCEPT !.writer = t]
  ELSE [l EXCEPT !.queue = Append(@, [task |-> t, mode |-> "write"])]

\* Permits released by a guard go to the waiters from the head of the queue.
RECURSIVE RwLockGrant(_)
RwLockGrant(l) ==
  IF l.queue = <<>> THEN l
  ELSE LET w == Head(l.queue) IN
       IF w.mode = "read" /\ CanRead(l)
       THEN RwLockGrant([l EXCEPT !.readers = @ \cup {w.task}, !.queue = Tail(@)])
       ELSE IF w.mode = "write" /\ CanWrite(l)
            THEN [l EXCEPT !.writer = w.task, !.queue = Tail(@)]
            ELSE l

\* Drop of a RwLockReadGuard.
RwLockReadUnlock(l, t) == RwLockGrant([l EXCEPT !.readers = @ \ {t}])

\* Drop of the RwLockWriteGuard.
RwLockWriteUnlock(l) == RwLockGrant([l EXCEPT !.writer = NoTask])

\* ------------------------------------------------------------------------
\* src/exporter.rs
\* ------------------------------------------------------------------------

\* The snapshots handed to export(): no scope at all; one gauge; a sum with
\* delta temporality, on which the render panics.
SampleGauge(description) ==
  [name |-> <<"a">>, description |-> description, unit |-> <<>>,
   data |-> [kind |-> "Gauge", temporality |-> "Cumulative", is_monotonic |-> FALSE,
             time |-> 7, start_time |-> 1, data_points |-> <<>>]]

SampleDeltaSum ==
  [name |-> <<"c">>, description |-> <<>>, unit |-> <<>>,
   data |-> [kind |-> "Sum", temporality |-> "Delta", is_monotonic |-> TRUE,
             time |-> 7, start_time |-> 1, data_points |-> <<>>]]

SampleMetrics ==
  << [scope_metrics |-> <<>>],
     [scope_metrics |-> << [name |-> <<"s">>, metrics |-> <<SampleGauge(<<>>)>>] >>],
     [scope_metrics |-> << [name |-> <<"s">>, metrics |-> <<SampleDeltaSum>>] >>] >>

ExportTasks == {<<"export", i>> : i \in 1..MaxExportCalls}
TextTasks == {<<"text", i>> : i \in 1..MaxTextCalls}

\* Default for OpenMetricsExporter: two fresh allocations holding String::new().
ExporterInit ==
  /\ rwlocks = <<RwLockNew(<<>>)>>
  /\ mutexes = <<MutexNew(<<>>)>>
  /\ exporters = <<[buffer |-> 1, backbuffer |-> 1]>>
  /\ ex = [e \in ExportTasks |->
            [pc |-> "idle", self |-> Unset, metrics |-> 0, render |-> Unset,
             pos |-> 0, res |-> Unset]]
  /\ tx = [t \in TextTasks |-> [pc |-> "idle", self |-> Unset, val |-> <<>>]]
  /\ rendered = {}
  /\ lastOk = 0

RenderIdle ==
  /\ input = None
  /\ output = None
  /\ first_output = None
  /\ permuted = {}

\* An export call that is over: its locals are gone, its result is res.
Returned(res) ==
  [pc |-> "done", self |-> Unset, metrics |-> 0, render |-> Unset, pos |-> 0, res |-> res]

\* Calls are anonymous: they are numbered in the order they start.
MayStart(calls, c) ==
  IF c[2] = 1 THEN TRUE ELSE calls[<<c[1], c[2] - 1>>].pc # "idle"

\* #[derive(Clone)]: the clone holds the same two Arcs.
CloneOf(exporter) == [buffer |-> exporter.buffer, backbuffer |-> exporter.backbuffer]

Clone(i) ==
  /\ Len(exporters) <= MaxClones
  /\ exporters' = Append(exporters, CloneOf(exporters[i]))
  /\ UNCHANGED <<rwlocks, mutexes, ex, tx, rendered, lastOk>>
  /\ UNCHANGED renderVars

\* export, line 45: self.backbuffer.lock().await is reached.
ExportCall(e, exporter, m) ==
  /\ ex[e].pc = "idle"
  /\ MayStart(ex, e)
  /\ ex' = [ex EXCEPT ![e] = [pc |-> "lock", self |-> exporter, metrics |-> m,
                              render |-> write_as_openmetrics(SampleMetrics[m]),
                              pos |-> 0, res |-> Unset]]
  /\ mutexes' = [mutexes EXCEPT ![exporter.backbuffer] = MutexLock(@, e)]
  /\ UNCHANGED <<rwlocks, exporters, tx, rendered, lastOk>>
  /\ UNCHANGED renderVars

\* Cleared of an export that forgets backbuffer.clear().
NotCleared(s) == s

\* export, line 46: the lock is held; backbuffer.clear().
Cleared(s) == <<>>

ExportClear(e) ==
  /\ ex[e].pc = "lock"
  /\ mutexes[ex[e].self.backbuffer].holder = e
  /\ mutexes' = [mutexes EXCEPT ![ex[e].self.backbuffer].data = Cleared(@)]
  /\ ex' = [ex EXCEPT ![e].pc = "render"]
  /\ UNCHANGED <<rwlocks, exporters, tx, rendered, lastOk>>
  /\ UNCHANGED renderVars

\* What write_as_openmetrics does with the snapshot of call e: the writes
\* it makes, and whether it then panics.
RenderOf(e) == ex[e].render

\* ExportWrite of an exporter with a single buffer: the render goes straight
\* into the buffer the readers see.
ExportWriteIntoFront(e) ==
  /\ ex[e].pc = "render"
  /\ ex[e].pos < Len(ex[e].render.f)
  /\ rwlocks' = [rwlocks EXCEPT ![ex[e].self.buffer].data =
                                   @ \o ex[e].render.f[ex[e].pos + 1]]
  /\ ex' = [ex EXCEPT ![e].pos = @ + 1]
  /\ UNCHANGED <<mutexes, exporters, tx, rendered, lastOk>>
  /\ UNCHANGED <<input, output, first_output, permuted>>

\* export, lines 47-48: the next write of write_as_openmetrics reaches the
\* back buffer.
ExportWrite(e) ==
  /\ ex[e].pc = "render"
  /\ ex[e].pos < Len(RenderOf(e).f)
  /\ mutexes' = [mutexes EXCEPT ![ex[e].self.backbuffer].data =
                                   @ \o RenderOf(e).f[ex[e].pos + 1]]
  /\ ex' = [ex EXCEPT ![e].pos = @ + 1]
  /\ UNCHANGED <<rwlocks, exporters, tx, rendered, lastOk>>
  /\ UNCHANGED renderVars

\* ExportWriteFail of an export that swaps the buffers on its way out even
\* when the render failed.
ExportWriteFailSwaps(e) ==
  /\ ex[e].pc = "render"
  /\ ex[e].pos < Len(ex[e].render.f)
  /\ rwlocks[ex[e].self.buffer].writer = <<"none", 0>>
  /\ rwlocks[ex[e].self.buffer].readers = {}
  /\ rwlocks' = [rwlocks EXCEPT ![ex[e].self.buffer].data =
                                   mutexes[ex[e].self.backbuffer].data]
  /\ mutexes' = [mutexes EXCEPT ![ex[e].self.backbuffer] =
        [data |-> rwlocks[ex[e].self.buffer].data,
         holder |-> IF @.queue = <<>> THEN <<"none", 0>> ELSE Head(@.queue),
         queue |-> IF @.queue = <<>> THEN <<>> ELSE Tail(@.queue)]]
  /\ ex' = [ex EXCEPT ![e] = [pc |-> "done", self |-> "unset", metrics |-> 0,
                              render |-> "unset", pos |-> 0, res |-> "Err"]]
  /\ UNCHANGED <<exporters, tx, rendered, lastOk>>
  /\ UNCHANGED <<input, output, first_output, permuted>>

\* export, lines 49-51: the next write returns fmt::Error; map_err and ?
\* return Err(InternalFailure) and the guard of the back buffer is dropped.
ExportWriteFail(e) ==
  /\ ex[e].pc = "render"
  /\ ex[e].pos < Len(RenderOf(e).f)
  /\ mutexes' = [mutexes EXCEPT ![ex[e].self.backbuffer] = MutexUnlock(@)]
  /\ ex' = [ex EXCEPT ![e] = Returned("Err")]
  /\ UNCHANGED <<rwlocks, exporters, tx, rendered, lastOk>>
  /\ UNCHANGED renderVars

\* export, lines 47-48: an assert_eq! of the renderer fails; the unwinding
\* drops the guard of the back buffer.
ExportPanic(e) ==
  /\ ex[e].pc = "render"
  /\ ex[e].pos = Len(RenderOf(e).f)
  /\ RenderOf(e).panicked
  /\ mutexes' = [mutexes EXCEPT ![ex[e].self.backbuffer] = MutexUnlock(@)]
  /\ ex' = [ex EXCEPT ![e] = Returned("panic")]
  /\ UNCHANGED <<rwlocks, exporters, tx, rendered, lastOk>>
  /\ UNCHANGED renderVars

\* export, line 53: the render returned Ok; self.buffer.write().await is
\* reached.
ExportLockFront(e) ==
  /\ ex[e].pc = "render"
  /\ ex[e].pos = Len(RenderOf(e).f)
  /\ ~RenderOf(e).panicked
  /\ rwlocks' = [rwlocks EXCEPT ![ex[e].self.buffer] = RwLockWrite(@, e)]
  /\ ex' = [ex EXCEPT ![e].pc = "write"]
  /\ rendered' = rendered \cup {ex[e].metrics}
  /\ UNCHANGED <<mutexes, exporters, tx, lastOk>>
  /\ UNCHANGED renderVars

\* export, line 54: the write lock is held; std::mem::swap of the Strings.
ExportSwap(e) ==
  /\ ex[e].pc = "write"
  /\ rwlocks[ex[e].self.buffer].writer = e
  /\ rwlocks' = [rwlocks EXCEPT ![ex[e].self.buffer].data =
                                   mutexes[ex[e].self.backbuffer].data]
  /\ mutexes' = [mutexes EXCEPT ![ex[e].self.backbuffer].data =
                                   rwlocks[ex[e].self.buffer].data]
  /\ ex' = [ex EXCEPT ![e].pc = "swapped"]
  /\ UNCHANGED <<exporters, tx, rendered, lastOk>>
  /\ UNCHANGED renderVars

\* export, lines 56-57: Ok(()) is returned; both guards are dropped.
ExportReturn(e) ==
  /\ ex[e].pc = "swapped"
  /\ rwlocks' = [rwlocks EXCEPT ![ex[e].self.buffer] = RwLockWriteUnlock(@)]
  /\ mutexes' = [mutexes EXCEPT ![ex[e].self.backbuffer] = MutexUnlock(@)]
  /\ ex' = [ex EXCEPT ![e] = Returned("Ok")]
  /\ lastOk' = ex[e].metrics
  /\ UNCHANGED <<exporters, tx, rendered>>
  /\ UNCHANGED renderVars

\* text, line 37: self.buffer.read().await is reached.
TextLock(l, t) == RwLockRead(l, t)

TextCall(t, exporter) ==
  /\ tx[t].pc = "idle"
  /\ MayStart(tx, t)
  /\ rwlocks' = [rwlocks EXCEPT ![exporter.buffer] = TextLock(@, t)]
  /\ tx' = [tx EXCEPT ![t] = [pc |-> "read", self |-> exporter, val |-> <<>>]]
  /\ UNCHANGED <<mutexes, exporters, ex, rendered, lastOk>>
  /\ UNCHANGED renderVars

\* text, line 37: the read lock is held; as_str().to_owned().
TextCopy(t) ==
  /\ tx[t].pc = "read"
  /\ t \in rwlocks[tx[t].self.buffer].readers
  /\ tx' = [tx EXCEPT ![t].pc = "copied", ![t].val = rwlocks[tx[t].self.buffer].data]
  /\ UNCHANGED <<rwlocks, mutexes, exporters, ex, rendered, lastOk>>
  /\ UNCHANGED renderVars

\* text, lines 37-38: the read guard is dropped and the copy returned.
TextReturn(t) ==
  /\ tx[t].pc = "copied"
  /\ rwlocks' = [rwlocks EXCEPT ![tx[t].self.buffer] = RwLockReadUnlock(@, t)]
  /\ tx' = [tx EXCEPT ![t] = [pc |-> "returned", self |-> Unset, val |-> <<>>]]
  /\ UNCHANGED <<mutexes, exporters, ex, rendered, lastOk>>
  /\ UNCHANGED renderVars

InitExporter == ExporterInit /\ RenderIdle

NextExporter ==
  \/ \E i \in 1..Len(exporters) : Clone(i)
  \/ \E e \in ExportTasks, i \in 1..Len(exporters), m \in 1..Len(SampleMetrics) :
        ExportCall(e, exporters[i], m)
  \/ \E e \in ExportTasks : ExportClear(e)
  \/ \E e \in ExportTasks : ExportWrite(e)
  \/ \E e \in ExportTasks : ExportWriteFail(e)
  \/ \E e \in ExportTasks : ExportPanic(e)
  \/ \E e \in ExportTasks : ExportLockFront(e)
  \/ \E e \in ExportTasks : ExportSwap(e)
  \/ \E e \in ExportTasks : ExportReturn(e)
  \/ \E t \in TextTasks, i \in 1..Len(exporters) : TextCall(t, exporters[i])
  \/ \E t \in TextTasks : TextCopy(t)
  \/ \E t \in TextTasks : TextReturn(t)

SpecExporter == InitExporter /\ [][NextExporter]_vars

\* ------------------------------------------------------------------------
\* Properties of the exporter
\* ------------------------------------------------------------------------

\* The text of the front buffer and of the back buffer of the exporter.
FrontText == rwlocks[1].data
BackText == mutexes[1].data

\* The complete render of each sample snapshot.
SampleText ==
  [m \in 1..Len(SampleMetrics) |-> Flatten(write_as_openmetrics(SampleMetrics[m]).f)]

\* What text() is to return once the export of snapshot m was the latest to
\* return Ok (m = 0: none has).
PublishedText(m) == IF m = 0 THEN <<>> ELSE SampleText[m]

\* Export call e holds the back buffer: between lock() and its last line.
InCritical(e) ==
  \/ ex[e].pc \in {"render", "write", "swapped"}
  \/ ex[e].pc = "lock" /\ mutexes[ex[e].self.backbuffer].holder = e

\* Export call e is in its clear-and-render phase: it holds the back buffer
\* and has not asked for the front buffer.
ClearAndRender(e) ==
  \/ ex[e].pc = "render"
  \/ ex[e].pc = "lock" /\ mutexes[ex[e].self.backbuffer].holder = e

\* Text call t has asked for the read lock and does not hold it.
ReaderWaits(t) == tx[t].pc = "read" /\ t \notin rwlocks[tx[t].self.buffer].readers

\* A writer holds the front lock or is in its queue.
WriterAtFront(l) ==
  l.writer # NoTask \/ \E i \in 1..Len(l.queue) : l.queue[i].mode = "write"

\* C1: whatever interleaving of export and text calls, a value that text()
\* copies (and then returns) is the empty initial string or the complete
\* render of a snapshot whose render finished inside an export; never a
\* partial, cleared or mixed buffer.
C1_TextIsEmptyOrCompleteRender ==
  \A t \in TextTasks :
    tx[t].pc = "copied" =>
      \/ tx[t].val = <<>>
      \/ \E m \in rendered : tx[t].val = SampleText[m]

\* C1 witness: a text call has copied a non-empty text while an export is in
\* the middle of its render.
C1_Witness ==
  \E t \in TextTasks, e \in ExportTasks :
    /\ tx[t].pc = "copied" /\ tx[t].val # <<>>
    /\ ex[e].pc = "render" /\ ex[e].pos > 0 /\ ex[e].pos < Len(ex[e].render.f)

\* C2: the value text() copies is empty while no export has returned Ok and
\* otherwise exactly the render of the snapshot of the latest export that
\* returned Ok, whichever clones the calls went through and whatever exports
\* failed or ran before.
C2_TextIsLatestExport ==
  [][\A t \in TextTasks :
       (tx[t].pc = "read" /\ tx'[t].pc = "copied") =>
         tx'[t].val = PublishedText(lastOk)]_vars

\* C2 witness: with a clone around, and after two exports returned Ok and one
\* did not, a text call has copied the render of the latest.
C2_Witness ==
  /\ Len(exporters) > 1
  /\ \E e1, e2, e3 \in ExportTasks :
       /\ e1 # e2 /\ ex[e1].res = "Ok" /\ ex[e2].res = "Ok"
       /\ ex[e3].res \in {"Err", "panic"}
  /\ \E t \in TextTasks :
       tx[t].pc = "copied" /\ tx[t].val # <<>> /\ tx[t].val = PublishedText(lastOk)

\* C3: the step in which a render fails on a sink write returns Err and
\* leaves the front buffer as it was, and no step ever puts into the front
\* buffer anything but the complete render of the snapshot of the export
\* that makes the step.
C3_FailedRenderIsNotPublished ==
  [][\A e \in ExportTasks :
       /\ (ex[e].pc = "render" /\ ex'[e].pc = "done" /\ ex[e].pos < Len(ex[e].render.f))
            => (ex'[e].res = "Err" /\ FrontText' = FrontText)
       /\ (FrontText' # FrontText /\ ex[e].pc # ex'[e].pc)
            => (~ex[e].render.panicked /\ FrontText' = Flatten(ex[e].render.f))]_vars

\* C3 witness: an export failed leaving a partial render in the back buffer
\* while the front buffer held an earlier complete render, or a later export
\* has published its own render after the failure.
C3_Witness ==
  \E e1, e2 \in ExportTasks :
    /\ e1[2] < e2[2]
    /\ ex[e1].res = "Err" /\ ex[e2].res = "Ok"
    /\ FrontText = PublishedText(lastOk) /\ lastOk # 0

\* C4: at most one export call is between acquiring the back buffer and the
\* end of its swap; that call is the holder of the back lock, the back
\* buffer holds exactly what that call has rendered so far, and what a swap
\* publishes is the render of that one call.
C4_OneExportAtATime ==
  /\ \A e1, e2 \in ExportTasks : (InCritical(e1) /\ InCritical(e2)) => e1 = e2
  /\ \A e \in ExportTasks :
       /\ InCritical(e) => mutexes[ex[e].self.backbuffer].holder = e
       /\ ex[e].pc \in {"render", "write"} =>
            BackText = Flatten(SubSeq(ex[e].render.f, 1, ex[e].pos))
       /\ ex[e].pc = "swapped" => FrontText = Flatten(ex[e].render.f)

\* C4 witness: a second export waits in the queue of the back lock while the
\* first is in the middle of its render.
C4_Witness ==
  \E e1, e2 \in ExportTasks :
    /\ ex[e1].pc = "render" /\ ex[e1].pos > 0
    /\ ex[e2].pc = "lock"
    /\ \E i \in 1..Len(mutexes[1].queue) : mutexes[1].queue[i] = e2

\* C5: a text call waits only while a writer holds the front lock or is
\* queued for it; while an export holds only the back lock no writer is at
\* the front lock, so a text call that arrives then gets the read lock in
\* the same step and can copy and return whatever the exports do; text
\* calls never touch the back lock.
C5_ReadersWaitOnlyForTheSwap ==
  /\ [](\A t \in TextTasks :
          /\ ReaderWaits(t) => WriterAtFront(rwlocks[tx[t].self.buffer])
          /\ mutexes[1].holder # t
          /\ \A i \in 1..Len(mutexes[1].queue) : mutexes[1].queue[i] # t)
  /\ [](\A e \in ExportTasks :
          ClearAndRender(e) => ~WriterAtFront(rwlocks[ex[e].self.buffer]))
  /\ [](\A t \in TextTasks :
          /\ (tx[t].pc = "read" /\ ~ReaderWaits(t)) => ENABLED TextCopy(t)
          /\ tx[t].pc = "copied" => ENABLED TextReturn(t))
  /\ [][\A t \in TextTasks :
          (tx[t].pc = "idle" /\ tx'[t].pc = "read"
             /\ \E e \in ExportTasks : ClearAndRender(e))
            => t \in rwlocks'[tx'[t].self.buffer].readers]_vars

\* C5 witness: two text calls hold the read lock together while an export is
\* in the middle of its render.
C5_Witness ==
  \E t1, t2 \in TextTasks, e \in ExportTasks :
    /\ t1 # t2
    /\ {t1, t2} \subseteq rwlocks[1].readers
    /\ ex[e].pc = "render" /\ ex[e].pos > 0

\* ------------------------------------------------------------------------
\* The renderer's functions, called on their own
\* ------------------------------------------------------------------------

\* s with the elements at i and i + 1 exchanged.
SwapAt(s, i) ==
  [j \in 1..Len(s) |-> IF j = i THEN s[i + 1] ELSE IF j = i + 1 THEN s[i] ELSE s[j]]

\* The first call of a function records its output.
FirstOr(out) == IF first_output = None THEN out ELSE first_output

\* The caller hands over the same collection in another order.
Reorder(new_input, kind) ==
  /\ output # None
  /\ input' = new_input
  /\ output' = None
  /\ permuted' = permuted \cup {kind}
  /\ UNCHANGED first_output
  /\ UNCHANGED exporterVars

\* No call made yet on the argument chosen.
FunctionInit(inputs) ==
  /\ ExporterInit
  /\ input \in inputs
  /\ output = None
  /\ first_output = None
  /\ permuted = {}

\* --- write_sanitized_name ------------------------------------------------

\* Letters of both cases, a digit, the two characters a name may hold besides
\* and two it may not.
NameAlphabet == {"a", "Z", "1", "_", ":", "."}
NameInputs == SeqsUpTo(NameAlphabet, MaxNameLen)

SanitizeName ==
  /\ output = None
  /\ output' = Some(write_sanitized_name(<<>>, input))
  /\ first_output' = FirstOr(output')
  /\ UNCHANGED <<input, permuted>>
  /\ UNCHANGED exporterVars

InitName == FunctionInit(NameInputs)
NextName == SanitizeName
SpecName == InitName /\ [][NextName]_vars

\* --- write_attrs ---------------------------------------------------------

\* Keys whose byte order differs from their order as written here, one of
\* them a prefix of another, one that the sanitizer changes; values with and
\* without a character to escape.
AttrKeys == {<<"a">>, <<"a", "b">>, <<"B">>, <<"b", ".">>}
AttrValues == {<<"c">>, <<"\"", "x">>}

UniqueKeys(attrs) ==
  \A i, j \in 1..Len(attrs) : attrs[i][1] = attrs[j][1] => i = j

AttrInputs ==
  {attrs \in SeqsUpTo(AttrKeys \X AttrValues, MaxAttrs) : UniqueKeys(attrs)}

WriteAttrs ==
  /\ output = None
  /\ output' = Some(write_attrs(<<>>, input))
  /\ first_output' = FirstOr(output')
  /\ UNCHANGED <<input, permuted>>
  /\ UNCHANGED exporterVars

PermuteAttrs(i) == Reorder(SwapAt(input, i), "attrs")

InitAttrs == FunctionInit(AttrInputs)
NextAttrs ==
  \/ WriteAttrs
  \/ \E i \in 1..(Len(input) - 1) : PermuteAttrs(i)
SpecAttrs == InitAttrs /\ [][NextAttrs]_vars

\* --- write_values: the data points of one metric ---------------------------

\* Attribute sets of data points: none, two that differ in where the key
\* ends and the value begins, one of two pairs.
PointAttrs ==
  { <<>>,
    << <<(<<"a">>), (<<"b", "c">>)>> >>,
    << <<(<<"a", "b">>), (<<"c">>)>> >>,
    << <<(<<"a">>), (<<"c">>)>>, <<(<<"B">>), (<<"c">>)>> >> }

NumberPoints == [attributes : PointAttrs, value : {1, 2}]

HistogramPoints ==
  [attributes : PointAttrs, count : {3, 4}, sum : {9}, bounds : {<<5>>},
   bucket_counts : {<<1, 2>>}]

MetricData(kind, monotonic, points) ==
  [kind |-> kind, temporality |-> "Cumulative", is_monotonic |-> monotonic,
   time |-> 7, start_time |-> 1, data_points |-> points]

PointInputs ==
  {MetricData("Gauge", FALSE, ps) : ps \in SeqsUpTo(NumberPoints, MaxPoints)}
  \cup {MetricData("Sum", TRUE, ps) : ps \in SeqsUpTo(NumberPoints, MaxPoints)}
  \cup {MetricData("Histogram", FALSE, ps) : ps \in SeqsUpTo(HistogramPoints, MaxPoints)}

\* The context write_values is called with for a metric named "m".
ContextOfM == [Context_with_output(<<>>) EXCEPT !.name = <<"m">>]

WriteValues ==
  /\ output = None
  /\ output' = Some(write_values(ContextOfM, input).f)
  /\ first_output' = FirstOr(output')
  /\ UNCHANGED <<input, permuted>>
  /\ UNCHANGED exporterVars

PermutePoints(i) ==
  Reorder([input EXCEPT !.data_points = SwapAt(@, i)], "points")

PermutePairs(p, i) ==
  Reorder([input EXCEPT !.data_points[p].attributes = SwapAt(@, i)], "pairs")

InitPoints == FunctionInit(PointInputs)
NextPoints ==
  \/ WriteValues
  \/ \E i \in 1..(Len(input.data_points) - 1) : PermutePoints(i)
  \/ \E p \in 1..Len(input.data_points) :
       \E i \in 1..(Len(input.data_points[p].attributes) - 1) : PermutePairs(p, i)
SpecPoints == InitPoints /\ [][NextPoints]_vars

\* --- write_as_openmetrics: whole snapshots ---------------------------------

Metric(name, data) ==
  [name |-> name, description |-> <<>>, unit |-> <<>>, data |-> data]

OnePoint(v) == <<[attributes |-> <<>>, value |-> v]>>

DeltaOf(data) == [data EXCEPT !.temporality = "Delta"]

\* Scopes two of which share each name; metrics two of which share a name;
\* every payload of get_type: gauge, sums and histograms of both
\* temporalities, and a payload that is none of the three.
ScopePool ==
  { [name |-> <<"s">>, metrics |-> <<Metric(<<"x">>, MetricData("Gauge", FALSE, OnePoint(1)))>>],
    [name |-> <<"s">>, metrics |-> <<Metric(<<"y">>, MetricData("Gauge", FALSE, OnePoint(2)))>>],
    [name |-> <<"t">>, metrics |->
       << Metric(<<"x">>, MetricData("Gauge", FALSE, OnePoint(1))),
          Metric(<<"x">>, MetricData("Sum", TRUE, OnePoint(2))) >>],
    [name |-> <<"t">>, metrics |->
       << Metric(<<"h">>, DeltaOf(MetricData("Histogram", FALSE, <<>>))),
          Metric(<<"e">>, MetricData("ExponentialHistogram", FALSE, <<>>)),
          Metric(<<"c">>, MetricData("Sum", FALSE, OnePoint(3))) >>],
    [name |-> <<"u">>, metrics |->
       << Metric(<<"d">>, DeltaOf(MetricData("Sum", TRUE, OnePoint(1)))),
          Metric(<<"g">>, MetricData("Gauge", FALSE, OnePoint(1))) >>],
    [name |-> <<"v">>, metrics |->
       << Metric(<<"h">>, MetricData("Histogram", FALSE,
            <<[attributes |-> <<>>, count |-> 3, sum |-> 9, bounds |-> <<5>>,
               bucket_counts |-> <<1, 2>>]>>)) >>] }

SnapshotInputs ==
  {[scope_metrics |-> scopes] : scopes \in SeqsUpTo(ScopePool, MaxScopes)}

Convert ==
  /\ output = None
  /\ output' = Some(write_as_openmetrics(input))
  /\ first_output' = FirstOr(output')
  /\ UNCHANGED <<input, permuted>>
  /\ UNCHANGED exporterVars

PermuteScopes(i) ==
  Reorder([input EXCEPT !.scope_metrics = SwapAt(@, i)], "scopes")

PermuteMetrics(s, i) ==
  Reorder([input EXCEPT !.scope_metrics[s].metrics = SwapAt(@, i)], "metrics")

InitRender == FunctionInit(SnapshotInputs)
NextRender ==
  \/ Convert
  \/ \E i \in 1..(Len(input.scope_metrics) - 1) : PermuteScopes(i)
  \/ \E s \in 1..Len(input.scope_metrics) :
       \E i \in 1..(Len(input.scope_metrics[s].metrics) - 1) : PermuteMetrics(s, i)
SpecRender == InitRender /\ [][NextRender]_vars

\* ------------------------------------------------------------------------
\* Properties of the renderer
\* ------------------------------------------------------------------------

\* The text a call wrote into its sink.
OutputText == Flatten(output[1])
FirstOutputText == Flatten(first_output[1])

\* The shapes C6 lists as unsupported.
C6_Unsupported(metric) ==
  \/ metric.data.kind = "Histogram" /\ metric.data.temporality # "Cumulative"
  \/ metric.data.kind = "Sum" /\ metric.data.temporality # "Cumulative"
  \/ metric.data.kind \notin {"Gauge", "Sum", "Histogram"}

C6_Supported(metric) == ~C6_Unsupported(metric)

\* The snapshot without its unsupported metrics.
C6_Remaining(rm) ==
  [scope_metrics |->
     [i \in 1..Len(rm.scope_metrics) |->
        [rm.scope_metrics[i] EXCEPT !.metrics = SelectSeq(@, C6_Supported)]]]

\* text ends with "# EOF\n".
EndsWithEof(text) ==
  /\ Len(text) >= Len(STR_EOF)
  /\ SubSeq(text, Len(text) - Len(STR_EOF) + 1, Len(text)) = STR_EOF

\* C6: for every snapshot the render into a sink that accepts every write
\* returns (it does not abort), its text is the text of the snapshot with
\* the unsupported metrics (non-cumulative histogram, non-cumulative sum,
\* other payload) left out, and it ends with "# EOF".
C6_UnsupportedMetricsAreSkipped ==
  output # None =>
    /\ ~output[1].panicked
    /\ Flatten(output[1].f) = Flatten(write_as_openmetrics(C6_Remaining(input)).f)
    /\ EndsWithEof(Flatten(output[1].f))

\* C7: after any reordering of the scopes of a snapshot or of the metrics of
\* a scope, equal names included, the render (when neither call aborts)
\* writes the text it wrote for the first order.
C7_ScopeAndMetricOrderInvariance ==
  (output # None /\ first_output # None
     /\ ~output[1].panicked /\ ~first_output[1].panicked)
    => Flatten(output[1].f) = Flatten(first_output[1].f)

\* The attribute set of a data point.
AttrSet(point) == {point.attributes[i] : i \in 1..Len(point.attributes)}

\* C8: for a gauge, sum or histogram whose data points have pairwise
\* distinct attribute sets, after any reordering of the points or of the
\* pairs inside a point the sample lines written are those written for the
\* first order.
C8_PointOrderInvariance ==
  (/\ output # None
   /\ first_output # None
   /\ \A i, j \in 1..Len(input.data_points) :
        AttrSet(input.data_points[i]) = AttrSet(input.data_points[j]) => i = j)
    => OutputText = FirstOutputText

\* One entry of a label list: sanitized_key="escaped_value".
C9_Entry(kv) ==
  Flatten(write_sanitized_name(<<>>, kv[1])) \o <<"=", "\"">>
    \o Flatten(write_escaped(<<>>, kv[2])) \o <<"\"">>

\* The pairs of attrs in strictly increasing byte order of their keys.
C9_ByKey(attrs) ==
  CHOOSE sorted \in [1..Len(attrs) -> {attrs[i] : i \in 1..Len(attrs)}] :
    \A i, j \in 1..Len(attrs) :
      i < j => KeyLess(Bytes(sorted[i][1]), Bytes(sorted[j][1]))

\* The entries joined by single commas.
RECURSIVE C9_Joined(_)
C9_Joined(pairs) ==
  IF pairs = <<>> THEN <<>>
  ELSE IF Len(pairs) = 1 THEN C9_Entry(pairs[1])
  ELSE C9_Entry(pairs[1]) \o <<",">> \o C9_Joined(Tail(pairs))

\* C9: for pairs with unique keys in any order write_attrs writes the entries
\* sanitized_key="escaped_value" in byte order of the keys, joined by single
\* commas, with no comma at either end and no braces (nothing for no pair);
\* so it writes the same text after any reordering.
C9_AttrsSortedByKey ==
  output # None =>
    /\ OutputText = C9_Joined(C9_ByKey(input))
    /\ OutputText = FirstOutputText
    /\ input = <<>> => OutputText = <<>>
    /\ OutputText # <<>> =>
         /\ OutputText[1] \notin {",", "{"}
         /\ OutputText[Len(OutputText)] \notin {",", "}"}

\* C9 witness: write_attrs has written two pairs it was handed against the
\* byte order of their keys, after a reordering, one value needing an escape.
C9_Witness ==
  /\ output # None
  /\ "attrs" \in permuted
  /\ Len(input) >= 2
  /\ KeyLess(Bytes(input[2][1]), Bytes(input[1][1]))
  /\ \E i \in 1..Len(input) : next_escape_char(input[i][2]) # 0

\* A character a name may keep.
C10_Legal(c) == IsAsciiAlphanumeric(c) \/ c = ":"

\* What C10 describes: "_" ahead of a leading ASCII digit, every legal
\* character kept, one "_" for each maximal run of other characters.
C10_Expected(name) ==
  (IF name # <<>> /\ IsAsciiDigit(name[1]) THEN <<"_">> ELSE <<>>)
  \o Flatten([i \in 1..Len(name) |->
                IF C10_Legal(name[i]) THEN <<name[i]>>
                ELSE IF i > 1 /\ ~C10_Legal(name[i - 1]) THEN <<>>
                ELSE <<"_">>])

\* C10: for every name the output of write_sanitized_name holds only
\* characters of [A-Za-z0-9:_], holds no "__", does not start with a digit,
\* starts with "_" when the name starts with an ASCII digit, and is the name
\* with each maximal run of characters outside [A-Za-z0-9:] made one "_".
C10_SanitizedName ==
  output # None =>
    /\ \A i \in 1..Len(OutputText) : C10_Legal(OutputText[i]) \/ OutputText[i] = "_"
    /\ \A i \in 1..(Len(OutputText) - 1) :
         ~(OutputText[i] = "_" /\ OutputText[i + 1] = "_")
    /\ OutputText # <<>> => ~IsAsciiDigit(OutputText[1])
    /\ (input # <<>> /\ IsAsciiDigit(input[1])) => OutputText[1] = "_"
    /\ OutputText = C10_Expected(input)

\* C10 witness: the sanitizer has written a name that starts with a digit
\* and goes on with a run of two characters outside [A-Za-z0-9:], one of
\* them a real underscore.
C10_Witness ==
  /\ output # None
  /\ Len(input) = 3
  /\ IsAsciiDigit(input[1])
  /\ input[2] = "_" /\ input[3] = "."
  /\ OutputText = <<"_", "1", "_">>

\* ------------------------------------------------------------------------
\* write_escaped on its own
\* ------------------------------------------------------------------------

\* The three characters write_escaped looks for, the letter of the newline
\* escape and another letter.
ValueAlphabet == {"a", "n", "\\", "\"", "\n"}
ValueInputs == SeqsUpTo(ValueAlphabet, MaxValueLen)

EscapeValue ==
  /\ output = None
  /\ output' = Some(write_escaped(<<>>, input))
  /\ first_output' = FirstOr(output')
  /\ UNCHANGED <<input, permuted>>
  /\ UNCHANGED exporterVars

InitEscape == FunctionInit(ValueInputs)
NextEscape == EscapeValue
SpecEscape == InitEscape /\ [][NextEscape]_vars

\* What C11 describes for one character.
C11_Escaped(c) ==
  IF c = "\\" THEN <<"\\", "\\">>
  ELSE IF c = "\"" THEN <<"\\", "\"">>
  ELSE IF c = "\n" THEN <<"\\", "n">>
  ELSE <<c>>

\* A scan of text from the left finds no raw newline, no quote and no
\* backslash outside the escapes \\ \" \n.
RECURSIVE C11_NothingRaw(_)
C11_NothingRaw(text) ==
  IF text = <<>> THEN TRUE
  ELSE IF text[1] = "\\"
       THEN /\ Len(text) >= 2
            /\ text[2] \in {"\\", "\"", "n"}
            /\ C11_NothingRaw(SubSeq(text, 3, Len(text)))
       ELSE text[1] \notin {"\"", "\n"} /\ C11_NothingRaw(Tail(text))

\* The value an escaped text stands for.
RECURSIVE C11_Unescape(_)
C11_Unescape(text) ==
  IF text = <<>> THEN <<>>
  ELSE IF text[1] = "\\" /\ Len(text) >= 2
       THEN <<(IF text[2] = "n" THEN "\n" ELSE text[2])>>
              \o C11_Unescape(SubSeq(text, 3, Len(text)))
       ELSE <<text[1]>> \o C11_Unescape(Tail(text))

\* C11: for every value the text write_escaped writes is the value with each
\* backslash, double quote and newline replaced by \\ \" \n and every other
\* character copied; it holds no raw newline and no unescaped quote or
\* backslash, and unescaping it gives the value back.
C11_EscapeRoundTrip ==
  output # None =>
    /\ OutputText = Flatten([i \in 1..Len(input) |-> C11_Escaped(input[i])])
    /\ \A i \in 1..Len(OutputText) : OutputText[i] # "\n"
    /\ C11_NothingRaw(OutputText)
    /\ C11_Unescape(OutputText) = input

\* C11 witness: write_escaped has escaped a value made of a backslash, the
\* letter n and a newline.
C11_Witness ==
  /\ output # None
  /\ input = <<"\\", "n", "\n">>
  /\ OutputText = <<"\\", "\\", "n", "\\", "n">>

\* ------------------------------------------------------------------------
\* get_unit_suffixes on its own
\* ------------------------------------------------------------------------

\* Units that are in both tables, in one, in none; the slash; and the
\* units of the doc comment and of test_get_unit_suffixes.
UnitAlphabet == {"m", "s", "h", "1", "x", "/"}
UnitExamples ==
  { <<"k", "m", "/", "s">>, <<"t", "e", "s", "t", "/", "y">>, <<"g">>,
    <<"i", "n", "v", "a", "l", "i", "d">>, <<"{", "r", "e", "q", "u", "e", "s", "t", "}">> }
UnitInputs == SeqsUpTo(UnitAlphabet, MaxUnitLen) \cup UnitExamples

MapUnit ==
  /\ output = None
  /\ output' = Some(get_unit_suffixes(input))
  /\ first_output' = FirstOr(output')
  /\ UNCHANGED <<input, permuted>>
  /\ UNCHANGED exporterVars

InitUnit == FunctionInit(UnitInputs)
NextUnit == MapUnit
SpecUnit == InitUnit /\ [][NextUnit]_vars

\* The long name a table gives for a short unit.
C12_Entry(table, unit) == (CHOOSE e \in table : e[1] = unit)[2]
C12_In(table, unit) == \E e \in table : e[1] = unit

\* The position of the first '/' of unit.
C12_FirstSlash(unit) ==
  CHOOSE i \in 1..Len(unit) : unit[i] = "/" /\ \A j \in 1..(i - 1) : unit[j] # "/"

C12_Numerator(unit) == SubSeq(unit, 1, C12_FirstSlash(unit) - 1)
C12_Denominator(unit) == SubSeq(unit, C12_FirstSlash(unit) + 1, Len(unit))

C12_Per == <<"p", "e", "r", "_">>

\* What C12 describes.
C12_Expected(unit) ==
  IF unit = <<>> THEN None
  ELSE IF C12_In(PromUnits, unit) THEN Some(C12_Entry(PromUnits, unit))
  ELSE IF \E i \in 1..Len(unit) : unit[i] = "/"
       THEN IF ~C12_In(PromPerUnits, C12_Denominator(unit)) THEN None
            ELSE IF \/ C12_Numerator(unit) = <<>>
                    \/ C12_Numerator(unit) \in
                         {<<"1">>, <<"d">>, <<"h">>, <<"m", "i", "n">>, <<"s">>,
                          <<"m", "s">>, <<"u", "s">>, <<"n", "s">>}
                    \/ ~C12_In(PromUnits, C12_Numerator(unit))
                 THEN Some(C12_Per \o C12_Entry(PromPerUnits, C12_Denominator(unit)))
                 ELSE Some(C12_Entry(PromUnits, C12_Numerator(unit)) \o <<"_">> \o C12_Per
                             \o C12_Entry(PromPerUnits, C12_Denominator(unit)))
       ELSE None

\* C12: get_unit_suffixes gives nothing for the empty unit, the table entry
\* for an exact match, for another unit with a '/' the split at the first
\* '/' (nothing when the denominator is not a per-unit, per_<denominator>
\* when the numerator is empty, one of 1 d h min s ms us ns or not in the
\* table, <numerator>_per_<denominator> otherwise), and nothing for every
\* other unit.
C12_UnitSuffix ==
  output # None => output[1] = C12_Expected(input)

\* C12 witness: the mapper has answered per_hour for s/h, whose numerator
\* is in the table but not applicable in a per-unit.
C12_Witness ==
  /\ output # None
  /\ input = <<"s", "/", "h">>
  /\ output[1] = Some(<<"p", "e", "r", "_", "h", "o", "u", "r">>)

\* C13: the mapper turns a compound unit foo/bar into foo_per_bar:
\* get_unit_suffixes("km/s") is "kilometers_per_second" and
\* get_unit_suffixes("test/y") is "per_year".
C13_DocCommentExamples ==
  output # None =>
    /\ input = <<"k", "m", "/", "s">> =>
         output[1] = Some(<<"k", "i", "l", "o", "m", "e", "t", "e", "r", "s", "_",
                            "p", "e", "r", "_", "s", "e", "c", "o", "n", "d">>)
    /\ input = <<"t", "e", "s", "t", "/", "y">> =>
         output[1] = Some(<<"p", "e", "r", "_", "y", "e", "a", "r">>)

\* ------------------------------------------------------------------------
\* Properties of the lines written
\* ------------------------------------------------------------------------

\* The lines of a text, without their newlines (a last line that lacks its
\* newline included).
Newlines(text) == {i \in 1..Len(text) : text[i] = "\n"}

\* The end of the k-th line: its newline, or the end of a text whose last
\* line has none.
LineEnd(text, k) ==
  IF k > Cardinality(Newlines(text)) THEN Len(text) + 1
  ELSE CHOOSE i \in Newlines(text) :
         Cardinality({j \in Newlines(text) : j < i}) = k - 1

LineCount(text) ==
  Cardinality(Newlines(text))
    + (IF text # <<>> /\ text[Len(text)] # "\n" THEN 1 ELSE 0)

LinesOf(text) ==
  [k \in 1..LineCount(text) |->
     SubSeq(text, IF k = 1 THEN 1 ELSE LineEnd(text, k - 1) + 1, LineEnd(text, k) - 1)]

StartsWith(line, prefix) ==
  Len(line) >= Len(prefix) /\ SubSeq(line, 1, Len(prefix)) = prefix

\* The lines of the output of WriteValues.
OutputLines == LinesOf(OutputText)

\* The label list of a data point as write_attrs writes it.
AttrsText(point) == Flatten(write_attrs(<<>>, point.attributes))

\* The _created line C14 expects for a point of the metric "m" with start
\* time 1 and time 7.
C14_CreatedLine(point) ==
  <<"m">> \o STR_created \o AttrsText(point) \o <<"}", " ", "1", " ", "7">>

C14_IsCreated(line) == StartsWith(line, <<"m">> \o STR_created)

\* C14: for a cumulative histogram (here: one that has data points) the
\* lines written start with one _created line per data point, each with the attributes of its point, the start
\* time and the time, and no _count, _sum or _bucket line comes before a
\* _created line.
C14_CreatedLinePerPoint ==
  (output # None /\ input.kind = "Histogram" /\ input.data_points # <<>>) =>
    /\ Cardinality({i \in 1..Len(OutputLines) : C14_IsCreated(OutputLines[i])})
         = Len(input.data_points)
    /\ \A p \in 1..Len(input.data_points) :
         \E i \in 1..Len(OutputLines) :
           OutputLines[i] = C14_CreatedLine(input.data_points[p])
    /\ \A i, j \in 1..Len(OutputLines) :
         (C14_IsCreated(OutputLines[i]) /\ ~C14_IsCreated(OutputLines[j])) => i < j

\* ------------------------------------------------------------------------
\* write_values on one histogram data point
\* ------------------------------------------------------------------------

\* Ascending explicit bounds, k of them.
BoundsOf(k) == [i \in 1..k |-> 4 * i + 1]

RECURSIVE SumOf(_)
SumOf(counts) == IF counts = <<>> THEN 0 ELSE Head(counts) + SumOf(Tail(counts))

\* Data points as the SDK's histogram aggregation builds them: one bucket
\* count more than bounds (the last bucket is the one above every bound);
\* the count is the sum of the bucket counts, or, to have the other case,
\* one more.
BucketPoints ==
  UNION { { [attributes |-> a, count |-> SumOf(c) + d, sum |-> 9,
             bounds |-> BoundsOf(k), bucket_counts |-> c] :
              a \in {<<>>, << <<(<<"a">>), (<<"c">>)>> >>},
              c \in [1..(k + 1) -> {0, 1, 2}],
              d \in {0, 1} } : k \in 0..MaxBuckets }

HistogramInputs == {MetricData("Histogram", FALSE, <<p>>) : p \in BucketPoints}

InitHistogram == FunctionInit(HistogramInputs)
NextHistogram == WriteValues
SpecHistogram == InitHistogram /\ [][NextHistogram]_vars

\* The running sum of the bucket counts up to and including bucket i.
C15_Running(point, i) == SumOf(SubSeq(point.bucket_counts, 1, i))

\* The label list ahead of le=: the attributes of the point and a comma,
\* or nothing.
C15_Labels(point) ==
  IF point.attributes = <<>> THEN <<>> ELSE AttrsText(point) \o <<",">>

\* The i-th _bucket line C15 expects for a point of the metric "m" at time
\* 7; the line after the last bound is the +Inf line.
C15_BucketLine(point, i) ==
  <<"m">> \o STR_bucket \o C15_Labels(point) \o <<"l", "e", "=", "\"">>
    \o (IF i <= Len(point.bounds)
        THEN fast_display(point.bounds[i]) \o <<"\"", "}", " ">>
               \o fast_display(C15_Running(point, i))
        ELSE <<"+", "I", "n", "f", "\"", "}", " ">> \o fast_display(point.count))
    \o <<" ", "7">>

\* The lines of the output that are _bucket lines, in their order.
C15_IsBucket(line) == StartsWith(line, <<"m">> \o STR_bucket)
C15_BucketLines == SelectSeq(OutputLines, C15_IsBucket)

\* C15: for a histogram data point whose count is the sum of its bucket
\* counts, the _bucket lines written are one per bound, in the order of
\* the bounds, each with the running sum of the bucket counts up to its
\* bound, then the le="+Inf" line with the count of the point, nothing
\* between them; the values do not decrease from line to line.
C15_CumulativeBuckets ==
  (output # None /\ input.kind = "Histogram" /\ Len(input.data_points) = 1
     /\ input.data_points[1].count = SumOf(input.data_points[1].bucket_counts)) =>
    /\ Len(C15_BucketLines) = Len(input.data_points[1].bounds) + 1
    /\ \A i \in 1..Len(C15_BucketLines) :
         C15_BucketLines[i] = C15_BucketLine(input.data_points[1], i)
    /\ \A i \in 1..Len(OutputLines) :
         C15_IsBucket(OutputLines[i]) => i > Len(OutputLines) - Len(C15_BucketLines)
    /\ \A i \in 1..Len(input.data_points[1].bounds) :
         /\ i > 1 => C15_Running(input.data_points[1], i - 1)
                       <= C15_Running(input.data_points[1], i)
         /\ C15_Running(input.data_points[1], i) <= input.data_points[1].count

\* C15 witness: the lines of a point with attributes, two bounds and three
\* non-empty buckets have been written.
C15_Witness ==
  /\ output # None
  /\ input.kind = "Histogram" /\ Len(input.data_points) = 1
  /\ input.data_points[1].attributes # <<>>
  /\ input.data_points[1].bucket_counts = <<1, 2, 1>>
  /\ input.data_points[1].count = 4
  /\ Len(C15_BucketLines) = 3

\* ------------------------------------------------------------------------
\* write_as_openmetrics on one metric
\* ------------------------------------------------------------------------

\* Names the sanitizer keeps, prefixes and ends with '_'.
MetricNames == {<<"x">>, <<"1", "a">>, <<"a", ".">>}

\* No unit, a unit of the table, a compound unit, a unit without mapping.
MetricUnits == {<<>>, <<"s">>, <<"m", "/", "s">>, <<"x">>}

\* A text with a newline followed by what reads as the terminal line.
STR_newline_eof == <<"\n", "#", " ", "E", "O", "F">>

MetricDescriptions == {<<>>, <<"d">>, STR_newline_eof}

\* One data point per metric, without attributes or with an attribute whose
\* value holds a newline.
MetricPointAttrs == {<<>>, << <<(<<"a">>), STR_newline_eof>> >>}

NumberPointOf(attrs) == <<[attributes |-> attrs, value |-> 2]>>

HistogramPointOf(attrs) ==
  <<[attributes |-> attrs, count |-> 3, sum |-> 9, bounds |-> <<5>>,
     bucket_counts |-> <<1, 2>>]>>

\* Every payload: the four the renderer writes, the two get_type rejects,
\* and the sum write_counter rejects.
MetricPayloads ==
  UNION { { MetricData("Gauge", FALSE, NumberPointOf(a)),
            MetricData("Sum", FALSE, NumberPointOf(a)),
            MetricData("Sum", TRUE, NumberPointOf(a)),
            MetricData("Histogram", FALSE, HistogramPointOf(a)),
            DeltaOf(MetricData("Histogram", FALSE, HistogramPointOf(a))),
            MetricData("ExponentialHistogram", FALSE, <<>>),
            DeltaOf(MetricData("Sum", TRUE, NumberPointOf(a))) } :
          a \in MetricPointAttrs }

\* The snapshots of one scope with one metric, and the snapshot without
\* scopes.
MetricInputs ==
  { [scope_metrics |->
       << [name |-> <<"s">>,
           metrics |-> <<[name |-> n, description |-> d, unit |-> u, data |-> p]>>] >>] :
      n \in MetricNames, d \in MetricDescriptions, u \in MetricUnits, p \in MetricPayloads }
  \cup { [scope_metrics |-> <<>>] }

InitMetric == FunctionInit(MetricInputs)
NextMetric == Convert
SpecMetric == InitMetric /\ [][NextMetric]_vars

\* The metric of the input, when it has one.
HasMetric == input.scope_metrics # <<>>
TheMetric == input.scope_metrics[1].metrics[1]

\* The lines of the output of Convert.
RenderLines == LinesOf(Flatten(output[1].f))

\* The metrics C16 calls rendered: gauge, cumulative sum, cumulative
\* histogram.
C16_Rendered(metric) ==
  /\ metric.data.kind \in {"Gauge", "Sum", "Histogram"}
  /\ metric.data.kind \in {"Sum", "Histogram"} => metric.data.temporality = "Cumulative"

C16_Type(metric) ==
  IF metric.data.kind = "Histogram" THEN STR_histogram
  ELSE IF metric.data.kind = "Sum" /\ metric.data.is_monotonic THEN STR_counter
  ELSE STR_gauge

\* The output name: the sanitized name, and _<unit> when the unit is mapped.
C16_Name(metric) ==
  C10_Expected(metric.name)
    \o (IF C12_Expected(metric.unit) # None
        THEN <<"_">> \o C12_Expected(metric.unit)[1] ELSE <<>>)

\* The header lines C16 expects, in their order.
C16_Header(metric) ==
  << STR_TYPE \o C16_Name(metric) \o <<" ">> \o C16_Type(metric) >>
  \o (IF C12_Expected(metric.unit) # None
      THEN << STR_UNIT \o C16_Name(metric) \o <<" ">> \o C12_Expected(metric.unit)[1] >>
      ELSE <<>>)
  \o (IF metric.description # <<>>
      THEN << STR_HELP \o C16_Name(metric) \o <<" ">>
                \o Flatten([i \in 1..Len(metric.description) |->
                              C11_Escaped(metric.description[i])]) >>
      ELSE <<>>)

\* What a sample line of the metric starts with.
C16_SamplePrefixes(metric) ==
  IF metric.data.kind = "Histogram"
  THEN {C16_Name(metric) \o sfx : sfx \in {STR_created, STR_count, STR_sum, STR_bucket}}
  ELSE IF metric.data.kind = "Sum" /\ metric.data.is_monotonic
       THEN {C16_Name(metric) \o STR_total}
       ELSE {C16_Name(metric) \o STR_brace}

\* C16: the lines of a rendered metric start with # TYPE <name> <type>
\* (gauge for a gauge or non-monotonic sum, counter for a monotonic sum,
\* histogram for a cumulative histogram), then # UNIT <name> <unit> exactly
\* when the unit is mapped, then # HELP <name> <escaped description>
\* exactly when the description is not empty; every line after them up to
\* the terminal line is a sample line that starts with <name>, with _total
\* after it exactly for a monotonic sum, and there is at least one.
C16_HeaderThenSamples ==
  (output # None /\ HasMetric /\ C16_Rendered(TheMetric)) =>
    /\ Len(RenderLines) > Len(C16_Header(TheMetric)) + 1
    /\ SubSeq(RenderLines, 1, Len(C16_Header(TheMetric))) = C16_Header(TheMetric)
    /\ \A i \in (Len(C16_Header(TheMetric)) + 1)..(Len(RenderLines) - 1) :
         \E prefix \in C16_SamplePrefixes(TheMetric) : StartsWith(RenderLines[i], prefix)

\* C16 witness: a monotonic sum with a mapped unit and a description that
\* needs escaping has been rendered.
C16_Witness ==
  /\ output # None
  /\ HasMetric
  /\ TheMetric.data.kind = "Sum" /\ TheMetric.data.is_monotonic
  /\ TheMetric.data.temporality = "Cumulative"
  /\ TheMetric.unit = <<"m", "/", "s">>
  /\ TheMetric.description = STR_newline_eof
  /\ Len(RenderLines) = 5

\* The terminal line, without its newline.
C17_EofLine == <<"#", " ", "E", "O", "F">>

\* C17: the text of a render that returns success ends with the line # EOF
\* and its newline, and no other line of it is # EOF; so for the snapshot
\* without scopes and for metrics whose description or attribute value
\* holds a newline followed by # EOF.
C17_EofOnceAtEnd ==
  (output # None /\ ~output[1].panicked) =>
    /\ RenderLines # <<>>
    /\ RenderLines[Len(RenderLines)] = C17_EofLine
    /\ Flatten(output[1].f)[Len(Flatten(output[1].f))] = "\n"
    /\ \A i \in 1..(Len(RenderLines) - 1) : RenderLines[i] # C17_EofLine

\* C17 witness: a metric whose description and whose attribute value both
\* hold a newline followed by # EOF has been rendered with success.
C17_Witness ==
  /\ output # None
  /\ ~output[1].panicked
  /\ HasMetric
  /\ TheMetric.description = STR_newline_eof
  /\ TheMetric.data.kind = "Gauge"
  /\ TheMetric.data.data_points[1].attributes # <<>>
  /\ Len(RenderLines) = 4

\* A legal identifier: only [A-Za-z0-9:_], no "__", no digit in front.
C18_Legal(name) ==
  /\ \A i \in 1..Len(name) : IsAsciiAlphanumeric(name[i]) \/ name[i] \in {":", "_"}
  /\ \A i \in 1..(Len(name) - 1) : ~(name[i] = "_" /\ name[i + 1] = "_")
  /\ name # <<>> => ~IsAsciiDigit(name[1])

\* The name on the # TYPE line of the output.
C18_OutputName ==
  SubSeq(RenderLines[1], Len(STR_TYPE) + 1,
         Len(RenderLines[1]) - Len(C16_Type(TheMetric)) - 1)

\* C18: for every metric name and unit the output name of a rendered metric
\* (the sanitized name, joined by _ to the unit suffix when the unit is
\* mapped) is a legal identifier.
C18_OutputNameIsLegal ==
  (output # None /\ HasMetric /\ C16_Rendered(TheMetric)) => C18_Legal(C18_OutputName)

\* ------------------------------------------------------------------------
\* The exporter under a fair scheduler
\* ------------------------------------------------------------------------

\* The caller of a text() that returned calls text() again: the number of
\* text() calls in a run is unbounded.
TextAgain(t) ==
  /\ tx[t].pc = "returned"
  /\ tx' = [tx EXCEPT ![t].pc = "idle"]
  /\ UNCHANGED <<rwlocks, mutexes, exporters, ex, rendered, lastOk>>
  /\ UNCHANGED renderVars

\* The steps export takes by itself once called (lines 45-57).
ExportStep(e) ==
  \/ ExportClear(e)
  \/ ExportWrite(e)
  \/ ExportWriteFail(e)
  \/ ExportPanic(e)
  \/ ExportLockFront(e)
  \/ ExportSwap(e)
  \/ ExportReturn(e)

\* The steps text takes by itself once called (lines 36-38).
TextStep(t) == TextCopy(t) \/ TextReturn(t)

\* The calls made on the one exporter.
FairExportTasks == {e \in ExportTasks : e[2] <= MaxFairExportCalls}
FairTextTasks == {t \in TextTasks : t[2] <= MaxFairTextCalls}

NextExporterFair ==
  \/ \E e \in FairExportTasks, m \in 1..Len(SampleMetrics) : ExportCall(e, exporters[1], m)
  \/ \E e \in FairExportTasks : ExportStep(e)
  \/ \E t \in FairTextTasks : TextCall(t, exporters[1])
  \/ \E t \in FairTextTasks : TextStep(t)
  \/ \E t \in FairTextTasks : TextAgain(t)

\* The runtime polls every future that is ready: a call that can take its
\* next step takes it.  Whether and when a caller calls is up to the caller.
FairScheduling ==
  /\ \A e \in ExportTasks : WF_vars(ExportStep(e))
  /\ \A t \in TextTasks : WF_vars(TextStep(t))

SpecExporterFair == InitExporter /\ [][NextExporterFair]_vars /\ FairScheduling

\* C19: under fair scheduling every export call and every text() call that
\* was made is eventually over, whatever the other calls do: no set of calls
\* deadlocks, and no export waits forever for the front buffer's write lock
\* while text() calls keep coming.
C19_EveryCallReturns ==
  /\ \A e \in ExportTasks : (ex[e].pc \notin {"idle", "done"}) ~> (ex[e].pc = "done")
  /\ \A t \in TextTasks : (tx[t].pc \notin {"idle", "returned"}) ~> (tx[t].pc = "returned")

\* An export waits for the write lock behind a reader, a text() call waits
\* behind that export, and another export waits for the back buffer.
C19_Witness ==
  \E e1, e2 \in ExportTasks, t1, t2 \in TextTasks :
    /\ ex[e1].pc = "write" /\ rwlocks[1].writer = NoTask
    /\ t1 \in rwlocks[1].readers
    /\ tx[t2].pc = "read" /\ t2 \notin rwlocks[1].readers
    /\ ex[e2].pc = "lock" /\ mutexes[1].holder = e1

\* ------------------------------------------------------------------------
\* The exporter with callers that abandon export
\* ------------------------------------------------------------------------

\* MutexCancel of a lock() future whose drop leaves its waiter behind.
MutexCancelLeavesWaiter(m, t) == m

\* Drop of the future of lock() before it returned the guard: the waiter
\* leaves the queue; a lock already handed to it passes on.
MutexCancel(m, t) ==
  IF m.holder = t THEN MutexUnlock(m)
  ELSE [m EXCEPT !.queue = SelectSeq(@, LAMBDA w : w # t)]

\* Drop of the future of write() before it returned the guard: the waiter
\* leaves the queue and the waiters behind it are looked at again; a lock
\* already handed to it passes on.
RwLockCancel(l, t) ==
  IF l.writer = t THEN RwLockWriteUnlock(l)
  ELSE RwLockGrant([l EXCEPT !.queue = SelectSeq(@, LAMBDA w : w.task # t)])

\* export, line 45: the caller drops the future while it waits for the back
\* buffer.
AbandonAtLock(e) ==
  /\ ex[e].pc = "lock"
  /\ mutexes' = [mutexes EXCEPT ![ex[e].self.backbuffer] = MutexCancel(@, e)]
  /\ ex' = [ex EXCEPT ![e] = Returned("AbandonedAtLock")]
  /\ UNCHANGED <<rwlocks, exporters, tx, rendered, lastOk>>
  /\ UNCHANGED renderVars

\* export, line 53: the caller drops the future while it waits for the
\* front buffer's write lock; the guard of the back buffer, a local of the
\* future, is dropped with it.
AbandonAtWrite(e) ==
  /\ ex[e].pc = "write"
  /\ rwlocks' = [rwlocks EXCEPT ![ex[e].self.buffer] = RwLockCancel(@, e)]
  /\ mutexes' = [mutexes EXCEPT ![ex[e].self.backbuffer] = MutexUnlock(@)]
  /\ ex' = [ex EXCEPT ![e] = Returned("AbandonedAtWrite")]
  /\ UNCHANGED <<exporters, tx, rendered, lastOk>>
  /\ UNCHANGED renderVars

NextExporterAbandon ==
  \/ \E e \in ExportTasks, m \in 1..Len(SampleMetrics) : ExportCall(e, exporters[1], m)
  \/ \E e \in ExportTasks : ExportStep(e)
  \/ \E e \in ExportTasks : AbandonAtLock(e)
  \/ \E e \in ExportTasks : AbandonAtWrite(e)
  \/ \E t \in TextTasks : TextCall(t, exporters[1])
  \/ \E t \in TextTasks : TextStep(t)

SpecExporterAbandon == InitExporter /\ [][NextExporterAbandon]_vars

\* Task e neither holds nor waits for any lock.
C20_HoldsNothing(e) ==
  /\ \A i \in 1..Len(mutexes) :
       /\ mutexes[i].holder # e
       /\ \A k \in 1..Len(mutexes[i].queue) : mutexes[i].queue[k] # e
  /\ \A i \in 1..Len(rwlocks) :
       /\ rwlocks[i].writer # e
       /\ \A k \in 1..Len(rwlocks[i].queue) : rwlocks[i].queue[k].task # e

\* C20: abandoning an export while it waits for the back lock or for the
\* front write lock leaves the front buffer as it was and leaves the call
\* holding and waiting for no lock; and whatever was abandoned before, the
\* swap of an export publishes exactly the render of its own snapshot.
C20_AbandonedExportLeavesNoTrace ==
  [][\A e \in ExportTasks :
       /\ (ex[e].pc \in {"lock", "write"}
             /\ ex'[e].res \in {"AbandonedAtLock", "AbandonedAtWrite"}) =>
            /\ FrontText' = FrontText
            /\ C20_HoldsNothing(e)'
       /\ (ex[e].pc = "write" /\ ex'[e].pc = "swapped") =>
            FrontText' = SampleText[ex[e].metrics]]_vars

\* One export was abandoned at the back lock; another rendered the gauge and
\* was abandoned at the front write lock; a third then swapped in the render
\* of the snapshot without scopes.
C20_Witness ==
  \E e1, e2, e3 \in ExportTasks :
    /\ ex[e1].res = "AbandonedAtLock"
    /\ ex[e2].res = "AbandonedAtWrite"
    /\ rendered = {1, 2} /\ lastOk = 0
    /\ ex[e3].pc = "swapped" /\ ex[e3].metrics = 1
    /\ FrontText = SampleText[1]

====
